---- MODULE Spec2Model ----
(***************************************************************************)
(* Model of the RAG chatbot backend (src/backend.py): the module-level     *)
(* state (vectorstore, sessions), the temporary files its upload handler   *)
(* stages, and its five request handlers.  app.py is the client: it issues *)
(* the requests on behalf of its current chat session.                     *)
(*                                                                         *)
(* Text is modelled as a sequence of tokens: "" is <<>>, an f-string or a  *)
(* join is the concatenation of its parts.                                 *)
(***************************************************************************)
EXTENDS Integers, Sequences, FiniteSets, TLC

\* ----------------------------------------------------------------- bounds

\* Number of turns the sessions hold together.
MaxTurns == 2

\* Number of uploads in progress at a time.
MaxUploads == 2

\* ----------------------------------------------------------------- inputs

SessionIds == {"s1", "s2"}

Modes == {"document_only", "hybrid"}

\* A whitespace-only question and an ordinary one.
Questions == {<<" ">>, <<"q">>}

\* What the generation model may answer.
Answers == {<<"a">>}

\* What datetime.now().isoformat() may read: local wall-clock time, which
\* may repeat or go back between two calls.
Timestamps == {"t1", "t2"}

\* Uploaded files: the name, as a character sequence, and the chunks the
\* loader and the splitter make of the content.
UploadFiles ==
    { [filename |-> <<"a", ".", "p", "d", "f">>,
       chunks |-> <<"a1", "a2", "a3", "a4">>],
      [filename |-> <<"b", ".", "d", "o", "c", "x">>, chunks |-> <<"b1">>],
      [filename |-> <<"c", ".", "t", "x", "t">>, chunks |-> <<"c1">>] }

\* The step of upload_document, after the file is staged, at which a
\* collaborator raises, if any: the read of the request's file, the loader,
\* the splitter, the embedding.
FailPoints == {"none", "read", "load", "split", "embed"}

\* ------------------------------------------------------- python helpers

None == <<"None">>

Min(a, b) == IF a < b THEN a ELSE b

Max(a, b) == IF a > b THEN a ELSE b

\* seq[-n:]
PySliceLast(seq, n) == SubSeq(seq, Max(Len(seq) - n, 0) + 1, Len(seq))

\* seq[:n]
PySliceFirst(seq, n) == SubSeq(seq, 1, Min(n, Len(seq)))

\* sep.join(parts), parts a sequence of texts
RECURSIVE PyJoin(_, _)
PyJoin(sep, parts) ==
    IF parts = <<>> THEN <<>>
    ELSE IF Len(parts) = 1 THEN parts[1]
    ELSE parts[1] \o sep \o PyJoin(sep, Tail(parts))

\* text.endswith(suffix)
EndsWith(text, suffix) ==
    /\ Len(text) >= Len(suffix)
    /\ SubSeq(text, Len(text) - Len(suffix) + 1, Len(text)) = suffix

\* ------------------------------------------------------------ exceptions

NoExc == [type |-> "none", status_code |-> 0, detail |-> <<>>]

HTTPException(code, detail) ==
    [type |-> "HTTPException", status_code |-> code, detail |-> detail]

\* Any other exception, with its message.
PyError(type, msg) == [type |-> type, status_code |-> 0, detail |-> <<msg>>]

StatusText(code) ==
    CASE code = 400 -> "400" [] code = 500 -> "500" [] OTHER -> "0"

\* What str() of an HTTPException is, by the framework installed:
\* "<status_code>: <detail>" where the class defines __str__, "" where it
\* does not (the exception is built without arguments).
StrStyles == {"status_detail", "empty"}

\* str(e): that of the framework for an HTTPException, the message for any
\* other exception.
PyStr(e, style) ==
    IF e.type = "HTTPException"
    THEN IF style = "status_detail"
         THEN <<StatusText(e.status_code), ": ">> \o e.detail
         ELSE <<>>
    ELSE e.detail

\* ----------------------------------------------------------------- state

VARIABLES
    vectorstore,   \* the global index: None, or the indexed chunks
    sessions,      \* session id -> [history, memory], for the ids known
    files,         \* paths of the files that exist in the working directory
    uploads,       \* uploads suspended in `await file.read()`, per file:
                   \* those whose file is at its path, those who lost it
    resp,          \* the last handler step: the request and its response
    str_style      \* the installed framework's str() of an HTTPException

vars == <<vectorstore, sessions, files, uploads, resp, str_style>>

\* The fields of a request/response record, with their empty values: raised
\* is the exception the handler's try block raised, prompt the full_prompt
\* the hybrid branch sends (the chain's prompts are its library's), context
\* the chunks retrieved.
NoResp ==
    [ op |-> "none", sid |-> "", status |-> 0, detail |-> <<>>,
      raised |-> NoExc, unhandled |-> FALSE, cleanup_raised |-> FALSE,
      question |-> <<>>, mode |-> "", answer |-> <<>>,
      prompt |-> <<>>, context |-> <<>>,
      llm_calls |-> 0,
      filename |-> <<>>, chunks |-> 0, history |-> <<>> ]

\* sessions[request.session_id] = {"history": [], "memory": ...}
NewSession == [history |-> <<>>, memory |-> <<>>]

Init ==
    /\ vectorstore = None
    /\ sessions = [s \in {} |-> NewSession]
    /\ files = {}
    /\ uploads = [f \in UploadFiles |-> [open |-> 0, lost |-> 0]]
    /\ resp = NoResp
    /\ str_style \in StrStyles

\* ---------------------------------------------------------------- upload

\* file_path = f"temp_{file.filename}"
TempPath(filename) == <<"temp_">> \o filename

\* os.path.exists(path)
PathExists(fs, path) == path \in fs

\* str(FileNotFoundError) for path
NoSuchFile(path) ==
    <<"[Errno 2] No such file or directory: '">> \o path \o <<"'">>

\* os.remove(path): raises FileNotFoundError when the path does not exist.
OsRemove(fs, path) ==
    IF path \in fs
    THEN [fs |-> fs \ {path}, exc |-> NoExc]
    ELSE [fs |-> fs,
          exc |-> [type |-> "FileNotFoundError", status_code |-> 0,
                   detail |-> NoSuchFile(path)]]

\* file.filename.endswith('.pdf') / endswith('.docx'): a loader exists.
HasLoader(filename) ==
    \/ EndsWith(filename, <<".", "p", "d", "f">>)
    \/ EndsWith(filename, <<".", "d", "o", "c", "x">>)

\* PyPDFLoader(file_path) / Docx2txtLoader(file_path) and loader.load(): the
\* loader has only the path to read the document from. Its constructor
\* (lines 72, 74) refuses a path that is not a file; load() (line 79) raises
\* on a file without content, the parser's error for the format, and that is
\* what the path holds when the file there is not the one this upload wrote
\* (own is FALSE) but one that an upload still suspended has staged.
LoadFrom(fs, path, own) ==
    IF path \notin fs
    THEN [type |-> "ValueError", status_code |-> 0,
          detail |-> <<"File path ">> \o path
                     \o <<" is not a valid file or url">>]
    ELSE IF own THEN NoExc
    ELSE IF EndsWith(path, <<".", "p", "d", "f">>)
    THEN PyError("EmptyFileError", "Cannot read an empty file")
    ELSE PyError("BadZipFile", "File is not a zip file")

\* A variant that drops the old index before it builds the new one.
BuildIndexClearingFirst(vs, file, failAt) ==
    IF failAt = "load"
    THEN [vs |-> None, exc |-> PyError("LoaderError", "load failed")]
    ELSE IF failAt = "split"
    THEN [vs |-> None, exc |-> PyError("SplitError", "split failed")]
    ELSE IF failAt = "embed"
    THEN [vs |-> None, exc |-> PyError("EmbeddingError", "embed failed")]
    ELSE [vs |-> file.chunks, exc |-> NoExc]

\* loader.load() of the file this upload wrote, split_documents() and
\* FAISS.from_documents() (lines 79-90): each may raise; the global is
\* assigned once all have returned.
BuildIndex(vs, file, failAt) ==
    IF failAt = "load"
    THEN [vs |-> vs, exc |-> PyError("LoaderError", "load failed")]
    ELSE IF failAt = "split"
    THEN [vs |-> vs, exc |-> PyError("SplitError", "split failed")]
    ELSE IF failAt = "embed"
    THEN [vs |-> vs, exc |-> PyError("EmbeddingError", "embed failed")]
    ELSE [vs |-> file.chunks, exc |-> NoExc]

\* The try block of upload_document up to its suspension (lines 65-67):
\* open(file_path, "wb") creates the file, or empties the one that is there,
\* or raises.
UploadStage(fs, file, open_ok) ==
    IF open_ok
    THEN [fs |-> fs \cup {TempPath(file.filename)}, exc |-> NoExc]
    ELSE [fs |-> fs, exc |-> PyError("OSError", "open failed")]

\* The rest of the try block (lines 67-95), resumed in the state (fs, vs):
\* the files and the index it leaves, the exception it raised (NoExc: it
\* returned), the number of chunks it returns, and whether the exception is
\* one of its os.remove calls. The write of line 68 goes to the handle
\* opened at line 66: to the file at the path when that is still the file
\* the handle opened (own), to a removed file otherwise; it creates no file.
UploadTry(fs, vs, file, failAt, own) ==
    LET path == TempPath(file.filename)
        out(f, v, e, n, c) ==
            [fs |-> f, vs |-> v, exc |-> e, chunks |-> n, cleanup_raised |-> c]
    IN  IF failAt = "read"
        THEN out(fs, vs, PyError("ReadError", "read failed"), 0, FALSE)
        ELSE IF ~HasLoader(file.filename)
        THEN LET rm == OsRemove(fs, path) IN
             IF rm.exc # NoExc THEN out(rm.fs, vs, rm.exc, 0, TRUE)
             ELSE out(rm.fs, vs,
                      HTTPException(400, <<"Unsupported file format">>), 0,
                      FALSE)
        ELSE IF LoadFrom(fs, path, own) # NoExc
        THEN out(fs, vs, LoadFrom(fs, path, own), 0, FALSE)
        ELSE LET b == BuildIndex(vs, file, failAt) IN
             IF b.exc # NoExc THEN out(fs, b.vs, b.exc, 0, FALSE)
             ELSE LET rm == OsRemove(fs, path) IN
                  out(rm.fs, b.vs, rm.exc, Len(file.chunks), rm.exc # NoExc)

\* The except block of upload_document, entered with exception exc in the
\* state (fs, vs). An exception raised inside it leaves the handler unhandled.
UploadExcept(fs, vs, exc, file, style) ==
    LET path == TempPath(file.filename)
        rm == IF PathExists(fs, path) THEN OsRemove(fs, path)
              ELSE [fs |-> fs, exc |-> NoExc]
    IN  IF rm.exc # NoExc
        THEN [fs |-> rm.fs, vs |-> vs, exc |-> rm.exc, raised |-> exc,
              unhandled |-> TRUE, chunks |-> 0, cleanup_raised |-> TRUE]
        ELSE [fs |-> rm.fs, vs |-> vs,
              exc |-> HTTPException(500, PyStr(exc, style)),
              raised |-> exc,
              unhandled |-> FALSE, chunks |-> 0, cleanup_raised |-> FALSE]

\* upload_document from its resumption to its return.
UploadResult(fs, vs, file, failAt, own, style) ==
    LET t == UploadTry(fs, vs, file, failAt, own) IN
    IF t.exc = NoExc
    THEN [fs |-> t.fs, vs |-> t.vs, exc |-> NoExc, raised |-> NoExc,
          unhandled |-> FALSE, chunks |-> t.chunks, cleanup_raised |-> FALSE]
    ELSE [UploadExcept(t.fs, t.vs, t.exc, file, style)
             EXCEPT !.cleanup_raised = @ \/ t.cleanup_raised]

\* The HTTP status of a handler that ended with exception e: the status of
\* an HTTPException, 500 (Internal Server Error) for one left unhandled.
StatusOf(e) ==
    IF e = NoExc THEN 200
    ELSE IF e.type = "HTTPException" THEN e.status_code
    ELSE 500

DetailOf(e) ==
    IF e = NoExc THEN <<>>
    ELSE IF e.type = "HTTPException" THEN e.detail
    ELSE <<"Internal Server Error">>

\* {"message": ..., "chunks": len(chunks)}, or the error raised.
UploadResponse(file, r) ==
    [NoResp EXCEPT !.op = "upload",
                   !.filename = file.filename,
                   !.status = StatusOf(r.exc),
                   !.detail = DetailOf(r.exc),
                   !.raised = r.raised,
                   !.unhandled = r.unhandled,
                   !.cleanup_raised = r.cleanup_raised,
                   !.chunks = r.chunks]

\* The number of uploads in progress.
InProgress(ups) ==
    LET RECURSIVE Sum(_)
        Sum(S) == IF S = {} THEN 0
                  ELSE LET f == CHOOSE x \in S : TRUE
                       IN  ups[f].open + ups[f].lost + Sum(S \ {f})
    IN  Sum(DOMAIN ups)

\* The suspended uploads once the files fs have become fs2: the handles of
\* a removed file are handles of a lost file.
Unlinked(ups, fs, fs2) ==
    [f \in DOMAIN ups |->
        IF TempPath(f.filename) \in fs \ fs2
        THEN [open |-> 0, lost |-> ups[f].lost + ups[f].open]
        ELSE ups[f]]

\* POST /upload (the request carries no session id), up to the point where
\* the handler yields to the event loop in `await file.read()`; when open()
\* raises, the except block answers at once.
UploadStart(file, open_ok) ==
    LET st == UploadStage(files, file, open_ok) IN
    IF st.exc = NoExc
    THEN /\ files' = st.fs
         /\ uploads' = [uploads EXCEPT ![file].open = @ + 1]
         /\ resp' = [NoResp EXCEPT !.op = "upload_staged",
                                   !.filename = file.filename]
         /\ UNCHANGED <<vectorstore, sessions, str_style>>
    ELSE LET x == UploadExcept(st.fs, vectorstore, st.exc, file, str_style) IN
         /\ files' = x.fs
         /\ vectorstore' = x.vs
         /\ uploads' = Unlinked(uploads, files, x.fs)
         /\ resp' = UploadResponse(file, x)
         /\ UNCHANGED <<sessions, str_style>>

\* A suspended upload resumes and runs to its return: one whose file is
\* still at its path (own), or one whose file has been removed.
UploadFinish(file, failAt, own) ==
    /\ IF own THEN uploads[file].open > 0 ELSE uploads[file].lost > 0
    /\ \E r \in {UploadResult(files, vectorstore, file, failAt, own,
                             str_style)} :
          /\ uploads' =
                Unlinked([uploads EXCEPT ![file] =
                             IF own THEN [@ EXCEPT !.open = @ - 1]
                             ELSE [@ EXCEPT !.lost = @ - 1]],
                         files, r.fs)
          /\ files' = r.fs
          /\ vectorstore' = r.vs
          /\ resp' = UploadResponse(file, r)
          /\ UNCHANGED <<sessions, str_style>>

\* ----------------------------------------------------------------- query

\* The index a request on session sid reads: the global one, whatever sid.
SessionIndex(vs, sid) == vs

\* retriever.get_relevant_documents: the k most similar chunks of the index
\* (the similarity ranking is taken to be the index order).
Retrieve(vs, k) == PySliceFirst(vs, k)

\* What a branch leaves when its retrieval raised before any call to the
\* model.
RetrievalFailed(se) ==
    [exc |-> PyError("RetrievalError", "retrieval failed"),
     answer |-> <<>>, memory |-> se.memory, llm_calls |-> 0,
     prompt |-> <<>>, context |-> <<>>]

\* The hybrid prompt before the conversation is prepended: the retrieved
\* context (k = 2) around the question when an index exists, the raw
\* question otherwise.
DocumentPrompt(vs, question) ==
    IF vs # None
    THEN LET docs == Retrieve(vs, 2) IN
         <<"Context from document: ">>
         \o PyJoin(<<"\n">>, [i \in 1..Len(docs) |-> <<docs[i]>>])
         \o <<"\n                \nQuestion: ">> \o question
         \o <<"\n\nPlease answer using both the document context and your general knowledge.">>
    ELSE question

\* A variant that slices from the front: history[:3].
OldestHistory(history) == PySliceFirst(history, 3)

\* session["history"][-3:]
RecentHistory(history) == PySliceLast(history, 3)

\* "\n".join(f"Human: {h['question']}\nAI: {h['answer']}" for h in ...)
HistoryText(history) ==
    LET recent == RecentHistory(history) IN
    PyJoin(<<"\n">>,
           [i \in 1..Len(recent) |->
               <<"Human: ">> \o recent[i].question
               \o <<"\nAI: ">> \o recent[i].answer])

\* full_prompt
FullPrompt(history, prompt) ==
    LET history_text == HistoryText(history) IN
    IF history_text # <<>>
    THEN <<"Previous conversation:\n">> \o history_text
         \o <<"\n\n">> \o prompt
    ELSE prompt

\* memory.save_context: the chain records the exchange in the buffer.
SaveContext(memory, question, answer) ==
    memory \o << [type |-> "human", content |-> question],
                 [type |-> "ai", content |-> answer] >>

\* A variant that inserts the turn at the front.
PrependTurn(history, question, answer, now, mode) ==
    <<[question |-> question, answer |-> answer,
       timestamp |-> now, mode |-> mode]>> \o history

\* session["history"].append({...})
AppendTurn(history, question, answer, now, mode) ==
    Append(history, [question |-> question, answer |-> answer,
                     timestamp |-> now, mode |-> mode])

\* if request.session_id not in sessions: sessions[...] = {...}
GetOrCreate(ss, sid) ==
    IF sid \in DOMAIN ss THEN ss
    ELSE [s \in DOMAIN ss \cup {sid} |-> IF s = sid THEN NewSession ELSE ss[s]]

\* The hybrid branch (any mode other than document_only), on session
\* record se: the exception raised, the answer, the memory it leaves and
\* what reached the model. Its one call to the model raises when llm_fail_on
\* is 1.
AnswerHybrid(se, vs, question, retr_ok, llm_fail_on, llm_answer) ==
    LET full == FullPrompt(se.history, DocumentPrompt(vs, question))
        ctx == IF vs # None THEN Retrieve(vs, 2) ELSE <<>>
    IN  IF vs # None /\ ~retr_ok THEN RetrievalFailed(se)
        ELSE
        [exc |-> IF llm_fail_on # 1 THEN NoExc
                 ELSE PyError("APIError", "generation failed"),
         answer |-> IF llm_fail_on # 1 THEN llm_answer ELSE <<>>,
         memory |-> se.memory, llm_calls |-> 1,
         prompt |-> full, context |-> ctx]

\* The calls the chain makes to the model before it retrieves: one, to
\* condense the question with the conversation, when the memory holds any.
CondenseCalls(memory) == IF memory # <<>> THEN 1 ELSE 0

\* The chain on an index (line 135), with the question and the session's
\* memory as its inputs: it condenses the question when there is a
\* conversation, retrieves (k = 3), asks the model for the answer and saves
\* the exchange in the memory. The call numbered llm_fail_on raises, if the
\* chain gets to make it.
ChainInvoke(se, vs, question, retr_ok, llm_fail_on, llm_answer) ==
    LET failed(e, calls, ctx) ==
            [exc |-> e, answer |-> <<>>, memory |-> se.memory,
             llm_calls |-> calls, prompt |-> <<>>, context |-> ctx]
        before == CondenseCalls(se.memory)
    IN  IF before > 0 /\ llm_fail_on = 1
        THEN failed(PyError("APIError", "generation failed"), 1, <<>>)
        ELSE IF ~retr_ok
        THEN [RetrievalFailed(se) EXCEPT !.llm_calls = before]
        ELSE IF llm_fail_on = before + 1
        THEN failed(PyError("APIError", "generation failed"), before + 1,
                    Retrieve(vs, 3))
        ELSE [exc |-> NoExc, answer |-> llm_answer,
              memory |-> SaveContext(se.memory, question, llm_answer),
              llm_calls |-> before + 1,
              prompt |-> <<>>, context |-> Retrieve(vs, 3)]

\* A variant of the document_only branch that answers without an index.
AnswerDocumentOnlyFallingBack(se, vs, question, retr_ok, llm_fail_on, llm_answer) ==
    IF vs = None
    THEN AnswerHybrid(se, vs, question, retr_ok, llm_fail_on, llm_answer)
    ELSE ChainInvoke(se, vs, question, retr_ok, llm_fail_on, llm_answer)

\* The document_only branch.
AnswerDocumentOnly(se, vs, question, retr_ok, llm_fail_on, llm_answer) ==
    IF vs = None
    THEN [exc |-> HTTPException(400, <<"No document uploaded">>),
          answer |-> <<>>, memory |-> se.memory, llm_calls |-> 0,
          prompt |-> <<>>, context |-> <<>>]
    ELSE ChainInvoke(se, vs, question, retr_ok, llm_fail_on, llm_answer)

\* The try block of query_chatbot.
Answer(se, vs, question, mode, retr_ok, llm_fail_on, llm_answer) ==
    IF mode = "document_only"
    THEN AnswerDocumentOnly(se, vs, question, retr_ok, llm_fail_on, llm_answer)
    ELSE AnswerHybrid(se, vs, question, retr_ok, llm_fail_on, llm_answer)

\* llm = get_llm(): building the client raises (llm_built is FALSE) before
\* the session is looked up.
GetLlm(llm_built) ==
    IF llm_built THEN NoExc ELSE PyError("GroqError", "client not built")

\* What the try block leaves when it raised before either branch.
NotAnswered(exc) ==
    [exc |-> exc, answer |-> <<>>, memory |-> <<>>, llm_calls |-> 0,
     prompt |-> <<>>, context |-> <<>>]

\* query_chatbot as a whole: the sessions it leaves and its outcome. The
\* except block reports any exception, an HTTPException included, as 500.
QueryResult(ss, vs, now, sid, question, mode, llm_built, retr_ok, llm_fail_on, llm_answer, style) ==
    LET ss1 == GetOrCreate(ss, sid)
        a == Answer(ss1[sid], SessionIndex(vs, sid), question, mode,
                    retr_ok, llm_fail_on, llm_answer)
    IN  IF GetLlm(llm_built) # NoExc
        THEN [sessions |-> ss,
              exc |-> HTTPException(500, PyStr(GetLlm(llm_built), style)),
              a |-> NotAnswered(GetLlm(llm_built))]
        ELSE IF a.exc # NoExc
        THEN [sessions |-> ss1,
              exc |-> HTTPException(500, PyStr(a.exc, style)), a |-> a]
        ELSE [sessions |->
                 [ss1 EXCEPT ![sid] =
                     [history |-> AppendTurn(ss1[sid].history, question,
                                             a.answer, now, mode),
                      memory |-> a.memory]],
              exc |-> NoExc, a |-> a]

\* ChatResponse(answer=..., session_id=...), or the error raised, with what
\* the request sent to the model.
QueryResponse(sid, question, mode, exc, a) ==
    [NoResp EXCEPT !.op = "query", !.sid = sid,
                   !.question = question, !.mode = mode,
                   !.status = StatusOf(exc),
                   !.detail = DetailOf(exc),
                   !.raised = a.exc,
                   !.answer = a.answer,
                   !.prompt = a.prompt,
                   !.context = a.context,
                   !.llm_calls = a.llm_calls]

\* POST /query. The client is built or not (llm_built), the retrieval
\* returns (retr_ok) or raises, the calls to the model return or the one
\* numbered llm_fail_on raises; an answer is recorded with the reading now
\* of the wall clock.
Query(sid, question, mode, llm_built, retr_ok, llm_fail_on, llm_answer, now) ==
    \E r \in {QueryResult(sessions, vectorstore, now, sid, question, mode,
                           llm_built, retr_ok, llm_fail_on, llm_answer,
                           str_style)} :
        /\ sessions' = r.sessions
        /\ resp' = QueryResponse(sid, question, mode, r.exc, r.a)
        /\ UNCHANGED <<vectorstore, files, uploads, str_style>>

\* ---------------------------------------------------- history and delete

\* get_history's body
HistoryOf(ss, sid) == IF sid \in DOMAIN ss THEN ss[sid].history ELSE <<>>

\* GET /history/{session_id}
GetHistory(sid) ==
    /\ resp' = [NoResp EXCEPT !.op = "history", !.sid = sid, !.status = 200,
                              !.history = HistoryOf(sessions, sid)]
    /\ UNCHANGED <<vectorstore, sessions, files, uploads, str_style>>

\* if session_id in sessions: del sessions[session_id]
DeleteSession(ss, sid) == [s \in DOMAIN ss \ {sid} |-> ss[s]]

\* DELETE /session/{session_id}
ClearSession(sid) ==
    /\ sessions' = DeleteSession(sessions, sid)
    /\ resp' = [NoResp EXCEPT !.op = "delete", !.sid = sid, !.status = 200]
    /\ UNCHANGED <<vectorstore, files, uploads, str_style>>

\* GET /
Root ==
    /\ resp' = [NoResp EXCEPT !.op = "root", !.status = 200]
    /\ UNCHANGED <<vectorstore, sessions, files, uploads, str_style>>

\* ------------------------------------------------------------------ spec

\* The number of turns the sessions hold.
TotalTurns(ss) ==
    LET RECURSIVE Sum(_)
        Sum(S) == IF S = {} THEN 0
                  ELSE LET x == CHOOSE y \in S : TRUE
                       IN  Len(ss[x].history) + Sum(S \ {x})
    IN  Sum(DOMAIN ss)

\* The call to the model that raises: none (0), the first, the second.
FailOn == {0, 1, 2}

\* What the collaborators do in a query on index vs: the client is not
\* built; the retrieval raises (there is a retrieval only when there is an
\* index); or both return and the model's calls return or one of them raises.
LlmOutcomes(vs) ==
    {[built |-> FALSE, retr |-> TRUE, fail_on |-> 0]}
    \cup {[built |-> TRUE, retr |-> TRUE, fail_on |-> n] : n \in FailOn}
    \cup (IF vs # None
          THEN {[built |-> TRUE, retr |-> FALSE, fail_on |-> 0]} ELSE {})

\* The calls to the model that a query of session sid makes when none
\* raises.
ModelCalls(ss, vs, sid, mode) ==
    IF mode # "document_only" THEN 1
    ELSE IF vs = None THEN 0
    ELSE CondenseCalls(GetOrCreate(ss, sid)[sid].memory) + 1

\* The query is answered: every collaborator returned in each of the calls
\* made.
Answered(llm, calls) ==
    /\ llm.built /\ llm.retr /\ calls > 0
    /\ (llm.fail_on = 0 \/ llm.fail_on > calls)

\* Only an answer is read, and only for an answer is the clock read.
AnswersOf(answered) == IF answered THEN Answers ELSE {<<>>}

ReadingsOf(answered) == IF answered THEN Timestamps ELSE {"t1"}

\* Every request of every client.
Next ==
    \/ \E file \in UploadFiles, open_ok \in BOOLEAN :
          /\ InProgress(uploads) < MaxUploads
          /\ UploadStart(file, open_ok)
    \/ \E file \in UploadFiles, failAt \in FailPoints, own \in BOOLEAN :
          UploadFinish(file, failAt, own)
    \/ \E sid \in SessionIds, question \in Questions, mode \in Modes,
          llm \in LlmOutcomes(vectorstore) :
          \E ans \in {Answered(llm, ModelCalls(sessions, vectorstore, sid,
                                                mode))} :
          \E llm_answer \in AnswersOf(ans), now \in ReadingsOf(ans) :
             /\ ans => TotalTurns(sessions) < MaxTurns
             /\ Query(sid, question, mode, llm.built, llm.retr,
                      llm.fail_on, llm_answer, now)
    \/ \E sid \in SessionIds : GetHistory(sid)
    \/ \E sid \in SessionIds : ClearSession(sid)
    \/ Root

Spec == Init /\ [][Next]_vars

TheFile == CHOOSE f \in UploadFiles : f.filename[1] = "a"

\* The upload traffic alone: overlapping uploads of every file, each able
\* to fail at every step, with GET / served in between.
NextUpload ==
    \/ \E file \in UploadFiles, open_ok \in BOOLEAN :
          /\ InProgress(uploads) < MaxUploads
          /\ UploadStart(file, open_ok)
    \/ \E file \in UploadFiles, failAt \in FailPoints, own \in BOOLEAN :
          UploadFinish(file, failAt, own)
    \/ Root

SpecUpload == Init /\ [][NextUpload]_vars

\* A document and a file of no supported format.
ChatFiles == {f \in UploadFiles : f.filename[1] \in {"a", "c"}}

\* The chat traffic of two sessions, with uploads that succeed or are
\* refused, one upload at a time, all answers recorded within one reading
\* of the clock.
NextChat ==
    \/ \E file \in ChatFiles :
          /\ InProgress(uploads) < 1
          /\ UploadStart(file, TRUE)
    \/ \E file \in ChatFiles : UploadFinish(file, "none", TRUE)
    \/ \E sid \in SessionIds, question \in Questions, mode \in Modes,
          llm \in LlmOutcomes(vectorstore) :
          \E ans \in {Answered(llm, ModelCalls(sessions, vectorstore, sid,
                                                mode))} :
          \E llm_answer \in AnswersOf(ans) :
             /\ ans => TotalTurns(sessions) < MaxTurns
             /\ Query(sid, question, mode, llm.built, llm.retr,
                      llm.fail_on, llm_answer, "t1")
    \/ \E sid \in SessionIds : GetHistory(sid)
    \/ \E sid \in SessionIds : ClearSession(sid)

SpecChat == Init /\ [][NextChat]_vars

\* The chat traffic of two sessions asking one question, with one document
\* uploaded, each answer recorded with any reading of the clock.
NextClock ==
    \/ /\ InProgress(uploads) < 1
       /\ UploadStart(TheFile, TRUE)
    \/ UploadFinish(TheFile, "none", TRUE)
    \/ \E sid \in SessionIds, mode \in Modes,
          llm \in LlmOutcomes(vectorstore) :
          \E ans \in {Answered(llm, ModelCalls(sessions, vectorstore, sid,
                                                mode))} :
          \E llm_answer \in AnswersOf(ans), now \in ReadingsOf(ans) :
             /\ ans => TotalTurns(sessions) < MaxTurns
             /\ Query(sid, <<"q">>, mode, llm.built, llm.retr,
                      llm.fail_on, llm_answer, now)
    \/ \E sid \in SessionIds : GetHistory(sid)
    \/ \E sid \in SessionIds : ClearSession(sid)

SpecClock == Init /\ [][NextClock]_vars

\* The requests on one session id: long conversations.
LongTurns == MaxTurns + 2

NextLong ==
    \/ /\ InProgress(uploads) < 1
       /\ UploadStart(TheFile, TRUE)
    \/ UploadFinish(TheFile, "none", TRUE)
    \/ \E question \in Questions, mode \in Modes,
          llm \in LlmOutcomes(vectorstore) :
          \E ans \in {Answered(llm, ModelCalls(sessions, vectorstore, "s1",
                                                mode))} :
          \E llm_answer \in AnswersOf(ans) :
             /\ ans => TotalTurns(sessions) < LongTurns
             /\ Query("s1", question, mode, llm.built, llm.retr,
                      llm.fail_on, llm_answer, "t1")
    \/ ClearSession("s1")

SpecLong == Init /\ [][NextLong]_vars

\* ---------------------------------------------------------------- claims

IsQuery(r) == r.op = "query"

\* An upload request has returned.
IsUpload(r) == r.op = "upload"

\* question.strip() == ""
IsBlank(text) == \A i \in 1..Len(text) : text[i] \in {" ", "\t", "\n"}

\* The error of line 124.
NoDocumentError == HTTPException(400, <<"No document uploaded">>)

\* The error of line 77.
UnsupportedError == HTTPException(400, <<"Unsupported file format">>)

\* The error of a query whose client could not be built (line 107).
ClientError == GetLlm(FALSE)

\* C1, as stated: a document_only query with a non-empty question, issued
\* while the session has no index (the index the session reads is absent),
\* fails with the "No document uploaded" error (the handler raises it,
\* however the response words it), the model is not called,
\* nothing is answered, and the session's history is the same after the call
\* as before it.
C1_NoIndexDocumentOnlyFails ==
    [][ ( /\ IsQuery(resp')
          /\ resp'.mode = "document_only"
          /\ ~IsBlank(resp'.question)
          /\ SessionIndex(vectorstore, resp'.sid) = None )
        => ( /\ resp'.status # 200
             /\ resp'.raised = NoDocumentError
             /\ resp'.answer = <<>>
             /\ resp'.llm_calls = 0
             /\ HistoryOf(sessions', resp'.sid)
                    = HistoryOf(sessions, resp'.sid) ) ]_vars

\* C1, amended: a document_only query with a non-empty question, issued
\* while the session has no index, always fails: the handler raises the "No
\* document uploaded" error or, when the model's client cannot be built, that
\* client's error; the model is not called, nothing is answered, and the
\* session's history is the same after the call as before it.
C1_NoIndexDocumentOnlyNeverAnswers ==
    [][ ( /\ IsQuery(resp')
          /\ resp'.mode = "document_only"
          /\ ~IsBlank(resp'.question)
          /\ SessionIndex(vectorstore, resp'.sid) = None )
        => ( /\ resp'.status # 200
             /\ resp'.raised \in {NoDocumentError, ClientError}
             /\ resp'.answer = <<>>
             /\ resp'.llm_calls = 0
             /\ HistoryOf(sessions', resp'.sid)
                    = HistoryOf(sessions, resp'.sid) ) ]_vars

\* A document_only query was refused for the missing index on a session
\* that holds a turn.
C1_Witness ==
    /\ IsQuery(resp)
    /\ resp.mode = "document_only"
    /\ ~IsBlank(resp.question)
    /\ vectorstore = None
    /\ resp.status = 500
    /\ resp.raised = NoDocumentError
    /\ HistoryOf(sessions, resp.sid) # <<>>

\* C2: history is append-only and order-preserving. A successful query
\* appends exactly one turn, carrying its question, answer and mode, at the
\* end of its session's history; a failed query, and every other request
\* except the deletion of that session, leaves the history as it was; the
\* history request returns it.
C2_HistoryAppendOnly ==
    [][ \A s \in SessionIds :
          LET before == HistoryOf(sessions, s)
              after == HistoryOf(sessions', s)
          IN  IF IsQuery(resp') /\ resp'.sid = s /\ resp'.status = 200
              THEN /\ Len(after) = Len(before) + 1
                   /\ SubSeq(after, 1, Len(before)) = before
                   /\ after[Len(after)].question = resp'.question
                   /\ after[Len(after)].answer = resp'.answer
                   /\ after[Len(after)].mode = resp'.mode
              ELSE IF resp'.op = "delete" /\ resp'.sid = s
              THEN TRUE
              ELSE /\ after = before
                   /\ (resp'.op = "history" /\ resp'.sid = s)
                         => resp'.history = before ]_vars

\* A session holds two turns of different modes, the later one recorded
\* with the earlier reading of the clock, and its last query failed.
C2_Witness ==
    /\ IsQuery(resp)
    /\ resp.status = 500
    /\ Len(HistoryOf(sessions, resp.sid)) = 2
    /\ HistoryOf(sessions, resp.sid)[1].mode
           # HistoryOf(sessions, resp.sid)[2].mode
    /\ HistoryOf(sessions, resp.sid)[1].timestamp = "t2"
    /\ HistoryOf(sessions, resp.sid)[2].timestamp = "t1"

\* C3: the index is scoped per session: an upload is made for one session,
\* so of any two distinct sessions at least one keeps the index it had.
C3_UploadLeavesOtherSessions ==
    [][ IsUpload(resp')
        => \A A, B \in SessionIds :
              A # B => \/ SessionIndex(vectorstore', A)
                            = SessionIndex(vectorstore, A)
                       \/ SessionIndex(vectorstore', B)
                            = SessionIndex(vectorstore, B) ]_vars

\* C4: after a session is deleted its id is as if it had never existed: no
\* turns, no session record (so no memory), and no document index.
C4_DeleteForgetsSession ==
    resp.op = "delete"
    => /\ HistoryOf(sessions, resp.sid) = <<>>
       /\ resp.sid \notin DOMAIN sessions
       /\ SessionIndex(vectorstore, resp.sid) = None

\* C5: a query whose question is empty or whitespace-only fails, in either
\* mode and whatever the session state (so it is never answered).
C5_BlankQuestionFails ==
    (IsQuery(resp) /\ IsBlank(resp.question)) => resp.status # 200

\* C6: an upload that fails leaves the active index as it was, and an upload
\* whose name has no supported extension fails and builds nothing.
C6_FailedUploadCommitsNothing ==
    [][ IsUpload(resp')
        => /\ resp'.status # 200 => vectorstore' = vectorstore
           /\ ~HasLoader(resp'.filename)
                 => /\ resp'.status # 200
                    /\ resp'.chunks = 0
                    /\ vectorstore' = vectorstore ]_vars

\* An upload of a supported file failed in the embedding, after its document
\* was loaded and split, while another file's index stood.
C6_Witness ==
    /\ IsUpload(resp)
    /\ resp.status = 500
    /\ HasLoader(resp.filename)
    /\ resp.raised.type = "EmbeddingError"
    /\ vectorstore # None
    /\ \E f \in UploadFiles :
          f.filename = resp.filename /\ f.chunks # vectorstore

\* C7: once an upload has returned, with success or with any error, its
\* temporary file does not exist, and its outcome is not an error of the
\* cleanup: no exception escaped the handler and none of its os.remove
\* calls raised.
C7_TempFileReleased ==
    IsUpload(resp)
    => /\ TempPath(resp.filename) \notin files
       /\ ~resp.unhandled
       /\ ~resp.cleanup_raised

\* C8: client-input errors get a 4xx status: an upload refused for its
\* extension (line 77), and a document_only query refused for the missing
\* index (line 124).
C8_ClientErrorsAre4xx ==
    ( \/ ( /\ IsUpload(resp)
           /\ ~HasLoader(resp.filename)
           /\ resp.raised = UnsupportedError )
      \/ ( /\ IsQuery(resp)
           /\ resp.mode = "document_only"
           /\ resp.raised = NoDocumentError ) )
    => (resp.status >= 400 /\ resp.status <= 499)

\* The text of turns h[i..Len(h)], oldest first.
RECURSIVE TurnsText(_, _)
TurnsText(h, i) ==
    IF i > Len(h) THEN <<>>
    ELSE <<"Human: ">> \o h[i].question \o <<"\nAI: ">> \o h[i].answer
         \o (IF i < Len(h) THEN <<"\n">> ELSE <<>>)
         \o TurnsText(h, i + 1)

\* C9: the prompt a hybrid query sends to the model is prefixed with the
\* last min(h, 3) of the session's h prior turns, oldest first, as
\* question/answer pairs, and has no prefix when h = 0.
C9_HybridPromptPrefix ==
    [][ ( /\ IsQuery(resp')
          /\ resp'.mode # "document_only"
          /\ resp'.llm_calls = 1 )
        => LET h == HistoryOf(sessions, resp'.sid)
               n == Min(Len(h), 3)
               body == DocumentPrompt(vectorstore, resp'.question)
           IN  resp'.prompt =
                  IF Len(h) = 0 THEN body
                  ELSE <<"Previous conversation:\n">>
                       \o TurnsText(h, Len(h) - n + 1)
                       \o <<"\n\n">> \o body ]_vars

\* A hybrid query sent its prompt to the model on a session with four prior
\* turns, the oldest of which differs from the second; the model's call
\* raised, so the session holds the four turns still.
C9_Witness ==
    /\ IsQuery(resp)
    /\ resp.mode = "hybrid"
    /\ resp.status = 500
    /\ resp.raised.type = "APIError"
    /\ resp.llm_calls = 1
    /\ Len(HistoryOf(sessions, resp.sid)) = 4
    /\ HistoryOf(sessions, resp.sid)[1].question
          # HistoryOf(sessions, resp.sid)[2].question

\* The messages that a history amounts to, two per turn.
RECURSIVE MemoryOfHistory(_)
MemoryOfHistory(h) ==
    IF h = <<>> THEN <<>>
    ELSE << [type |-> "human", content |-> h[1].question],
            [type |-> "ai", content |-> h[1].answer] >>
         \o MemoryOfHistory(Tail(h))

\* C10: a session's conversation memory is a function of its history: it
\* holds the exchange of every recorded turn, whatever its mode, and no other.
C10_MemoryMirrorsHistory ==
    \A s \in DOMAIN sessions :
        sessions[s].memory = MemoryOfHistory(sessions[s].history)

====
